---- MODULE Spec2Model ----
(***************************************************************************)
(* Alert targeting and delivery pipeline of cor-api.                       *)
(*                                                                         *)
(* The relational store (alerts, devices, alert_deliveries), the Celery    *)
(* queue of send_alert_task messages, the push gateway log and the         *)
(* in-flight HTTP requests (send, mark-as-read) are the state.  Every      *)
(* await on the database is a point where another request or worker may    *)
(* run, so send_alert and mark_alert_as_read are split at the gap between  *)
(* their SELECTs and their commit.                                         *)
(*                                                                         *)
(* Beside the pipeline stand the inbox evaluation (get_inbox), the data    *)
(* services' fetch-or-fallback over Redis (CacheService, one step per      *)
(* Redis command, with the wall clock) and PushProvider.send_batch (one    *)
(* step per slice of the notification list).                               *)
(***************************************************************************)
EXTENDS Integers, Sequences, FiniteSets, TLC

NULL   == "NULL"                     \* None / SQL NULL in a string-valued field
NoTime == 0                          \* None / SQL NULL in a timestamp field
NoTask == 0                          \* task_id = None
\* An optional list (ARRAY column, Optional[List[str]]): None is <<>>, a list
\* with the elements S is <<S>>.
NoList == <<>>
ListOf(S) == <<S>>
\* Python truthiness of an optional list: neither None nor empty.
Truthy(l) == l # NoList /\ l[1] # {}

(***************************** bounds **************************************)
NumSendReqs   == 2                   \* concurrent POST /alerts/{id}/send requests
NumReadReqs   == 2                   \* concurrent POST /alerts/inbox/{id}/read requests
NumDirectTasks == 1                  \* send_alert_task messages not enqueued by send_alert
MaxTime       == 4                   \* readings of datetime.now()
NumFetchers   == 2                   \* concurrent requests to the data services
MaxSeconds    == 140                 \* wall-clock seconds the cache is followed for
MaxNotifications == 5                \* length of the short notification lists
MaxCalls      == 2                   \* provider calls followed after reset_stats
MaxFailures   == 1                   \* failures of one kind within one slice

(************************* program constants *******************************)
MaxRetries    == 3                   \* @celery_app.task(max_retries=3)
JobBatchSize  == 100                 \* batch_size = 100 in _send_alert
TokenMinLen   == 10                  \* DeviceRegister.push_token min_length
TokenMaxLen   == 500                 \* DeviceRegister.push_token max_length

(***************************** domains *************************************)
AlertIds  == {"a1"}
SendReqs  == 1..NumSendReqs
ReadReqs  == 1..NumReadReqs
\* Celery task ids: task s is the one send request s enqueues, the others
\* are messages delivered to the worker from elsewhere.
TaskIds   == 1..(NumSendReqs + NumDirectTasks)
Fetchers  == 1..NumFetchers
ProviderOutcomes == {"ok", "fail", "raise"}

Points    == {"pIn", "pOut"}
\* A geometry is represented by the set of points ST_Contains accepts.
\* AlertCreate.area: absent, or one polygon/circle; <<>> is "no area".
AreaInputs == {NoList, ListOf({"pIn"})}
AlertHoodInputs  == {NoList, ListOf({"h1"})}
DeviceHoodInputs == {NoList, ListOf({"h1"})}

\* Raw push_token strings as a client sends them: `core` is the text left
\* by str.strip(), `pad` the number of surrounding blanks.
CoreLen(core) == IF core = "" THEN 0 ELSE 12
RawTokens == { [core |-> "tokA_fcm_reg", pad |-> 0],
               [core |-> "",             pad |-> 10],
               [core |-> "",             pad |-> 3] }
Tokens    == { rt.core : rt \in RawTokens }

VARIABLES
    alerts,       \* alerts table: a function from the ids of the stored rows
    devices,      \* devices table: a function from the stored push_tokens
    deliveries,   \* alert_deliveries table: a set of rows with serial ids
    nextRowId,    \* alert_deliveries id sequence
    clock,        \* last value datetime.now() returned
    sendReq,      \* in-flight send_alert calls
    readReq,      \* in-flight mark_alert_as_read calls
    tasks,        \* send_alert_task messages and executions
    pushLog,      \* PushResults the push gateway has returned
    inbox,        \* the answer of the last get_inbox call
    alertStats,   \* the answer of the last GET /alerts/{id}/stats
    redisTime,    \* seconds on the wall clock Redis and the API share
    cacheData,    \* Redis keys cor:<namespace>:<key>, by data source
    cacheStamp,   \* Redis keys cor:<namespace>:<key>:timestamp, by data source
    lastWrite,    \* history: the last payload SETEX stored, by data source
    fetch,        \* in-flight fetches of the data services
    batchRun,     \* the send_batch call in progress
    stats,        \* the PushProvider's counters
    lastPush      \* the last send_notification call and its PushResult

storeVars == <<alerts, devices, deliveries, nextRowId, clock, sendReq,
               readReq, tasks, pushLog>>
inboxVars == <<inbox, alertStats>>
cacheVars == <<redisTime, cacheData, cacheStamp, lastWrite, fetch>>
pushVars  == <<batchRun, stats, lastPush>>

vars == <<alerts, devices, deliveries, nextRowId, clock, sendReq, readReq,
          tasks, pushLog, inbox, alertStats, redisTime, cacheData, cacheStamp, lastWrite,
          fetch, batchRun, stats, lastPush>>

Min(a, b) == IF a < b THEN a ELSE b

SetToSeq(S) == CHOOSE f \in [1..Cardinality(S) -> S] :
                   \A x \in S : \E i \in 1..Cardinality(S) : f[i] = x

(****************************** devices ************************************)
\* devices.id is a uuid4 drawn at registration; it is in one-to-one
\* correspondence with the unique push_token.
DeviceId(tok) == <<"device", tok>>

\* DeviceRegister.push_token: Field(min_length=10, max_length=500) is checked
\* on the raw string, the field validator then returns v.strip().
ValidatePushToken(rt) ==
    IF CoreLen(rt.core) + rt.pad >= TokenMinLen
         /\ CoreLen(rt.core) + rt.pad <= TokenMaxLen
    THEN rt.core
    ELSE "ValidationError"

RegisterDevice(rt, hoods) ==
    /\ ValidatePushToken(rt) # "ValidationError"
    /\ LET tok == ValidatePushToken(rt) IN
       devices' =
           IF tok \in DOMAIN devices
           THEN [devices EXCEPT ![tok].neighborhoods = hoods]
           ELSE (tok :> [push_token |-> tok, last_location |-> NULL,
                         neighborhoods |-> hoods]) @@ devices
    /\ UNCHANGED <<inboxVars, cacheVars, pushVars, alerts, deliveries, nextRowId, clock, sendReq, readReq,
                   tasks, pushLog>>

UpdateLocation(tok, pt) ==
    /\ tok \in DOMAIN devices
    /\ devices' = [devices EXCEPT ![tok].last_location = pt]
    /\ UNCHANGED <<inboxVars, cacheVars, pushVars, alerts, deliveries, nextRowId, clock, sendReq, readReq,
                   tasks, pushLog>>

(****************************** targeting **********************************)
\* ST_Contains(area.geom, point)
ST_Contains(geom, pt) == pt \in geom

\* DeviceMatches with the neighborhood condition not limited to devices
\* without a location.
DeviceMatches_HoodsWithLocation(alert, dev) ==
    /\ dev.push_token # NULL
    /\ \/ alert.broadcast
       \/ \E geom \in alert.areas :
             /\ dev.last_location # NULL
             /\ ST_Contains(geom, dev.last_location)
       \/ /\ Truthy(alert.neighborhoods)
          /\ dev.neighborhoods # NoList
          /\ dev.neighborhoods[1] \cap alert.neighborhoods[1] # {}

\* DeviceMatches with the overlap test replaced by "the device has
\* neighborhoods".
DeviceMatches_AnyHoods(alert, dev) ==
    /\ dev.push_token # NULL
    /\ \/ alert.broadcast
       \/ \E geom \in alert.areas :
             /\ dev.last_location # NULL
             /\ ST_Contains(geom, dev.last_location)
       \/ /\ Truthy(alert.neighborhoods)
          /\ dev.last_location = NULL
          /\ Truthy(dev.neighborhoods)

\* _build_device_query: the WHERE clause evaluated on one devices row.
DeviceMatches(alert, dev) ==
    /\ dev.push_token # NULL
    /\ \/ alert.broadcast
       \/ \E geom \in alert.areas :
             /\ dev.last_location # NULL
             /\ ST_Contains(geom, dev.last_location)
       \/ /\ Truthy(alert.neighborhoods)
          /\ dev.last_location = NULL
          /\ dev.neighborhoods # NoList
          /\ dev.neighborhoods[1] \cap alert.neighborhoods[1] # {}

\* get_targeted_devices: the tokens of the rows the query returns.
TargetedDevices(alert) ==
    { tok \in DOMAIN devices : DeviceMatches(alert, devices[tok]) }

\* _count_targeted_devices
CountTargetedDevices(alert) == Cardinality(TargetedDevices(alert))

(****************************** alerts *************************************)
CreateAlert(a, broadcast, area, hoods) ==
    /\ a \notin DOMAIN alerts
    /\ alerts' = (a :> [status |-> "draft", sent_at |-> NoTime,
                        broadcast |-> broadcast,
                        areas |-> IF area = NoList THEN {} ELSE {area[1]},
                        neighborhoods |-> hoods]) @@ alerts
    /\ UNCHANGED <<inboxVars, cacheVars, pushVars, devices, deliveries, nextRowId, clock, sendReq, readReq,
                   tasks, pushLog>>

NoResp == [code |-> 0]
IdleSend == [pc |-> "idle", alert |-> NULL, count |-> 0, resp |-> NoResp]

\* SendCheck without the test for "canceled".
SendCheck_SentOnly(a) ==
    IF a \notin DOMAIN alerts
    THEN [code |-> 404, message |-> "Alert not found"]
    ELSE IF alerts[a].status = "sent"
    THEN [code |-> 422, message |-> "Alert already sent"]
    ELSE NoResp

\* The checks send_alert makes on the loaded alert: NotFoundError (404) or
\* ValidationException (422), NoResp when the alert may be sent.
SendCheck(a) ==
    IF a \notin DOMAIN alerts
    THEN [code |-> 404, message |-> "Alert not found"]
    ELSE IF alerts[a].status = "sent"
    THEN [code |-> 422, message |-> "Alert already sent"]
    ELSE IF alerts[a].status = "canceled"
    THEN [code |-> 422, message |-> "Alert was canceled"]
    ELSE NoResp

\* send_alert up to the commit: load the alert, reject a missing, sent or
\* canceled one, count the targeted devices.
SendLoad(s, a) ==
    /\ sendReq[s].pc = "idle"
    /\ \A s0 \in SendReqs : s0 < s => sendReq[s0].pc # "idle"
    /\ sendReq' = [sendReq EXCEPT ![s] =
         IF SendCheck(a) # NoResp
         THEN [pc |-> "done", alert |-> a, count |-> 0, resp |-> SendCheck(a)]
         ELSE [pc |-> "loaded", alert |-> a,
               count |-> CountTargetedDevices(alerts[a]), resp |-> NoResp]]
    /\ UNCHANGED <<inboxVars, cacheVars, pushVars, alerts, devices, deliveries, nextRowId, clock, readReq,
                   tasks, pushLog>>

IdleTask == [pc |-> "free", alert |-> NULL, retries |-> 0, remaining |-> {},
             result |-> NULL]

\* MarkSent without the sent_at stamp.
MarkSent_NoStamp(alert, now) == [alert EXCEPT !.status = "sent"]

\* alert.status = "sent"; alert.sent_at = datetime.now(timezone.utc)
MarkSent(alert, now) == [alert EXCEPT !.status = "sent", !.sent_at = now]

\* send_alert from the status update on: stamp, commit, call
\* send_alert_task.delay (which may raise when the broker is unreachable),
\* reload and answer.
SendCommit(s, brokerUp) ==
    /\ sendReq[s].pc = "loaded"
    /\ clock < MaxTime
    /\ clock' = clock + 1
    /\ LET a == sendReq[s].alert IN
       /\ alerts' = [alerts EXCEPT ![a] = MarkSent(alerts[a], clock + 1)]
       /\ tasks' = IF brokerUp
                   THEN [tasks EXCEPT ![s] = [IdleTask EXCEPT !.pc = "queued",
                                                              !.alert = a]]
                   ELSE tasks
       /\ sendReq' = [sendReq EXCEPT ![s] =
            [pc |-> "done", alert |-> a, count |-> sendReq[s].count,
             resp |-> [code |-> 200,
                       status |-> "sent",
                       sent_at |-> clock + 1,
                       devices_targeted |-> sendReq[s].count,
                       task_id |-> IF brokerUp THEN s ELSE NoTask]]]
    /\ UNCHANGED <<inboxVars, cacheVars, pushVars, devices, deliveries, nextRowId, readReq, pushLog>>

(**************************** mark as read *********************************)
IdleRead == [pc |-> "idle", alert |-> NULL, token |-> NULL, found |-> 0,
             found_read_at |-> NoTime, alert_sent_at |-> NoTime,
             resp |-> NoResp]

\* The rows of one (alert, device) pair in an alert_deliveries table.
RowsIn(table, a, tok) ==
    { d \in table : d.alert_id = a /\ d.device_id = DeviceId(tok) }

RowsOf(a, tok) == RowsIn(deliveries, a, tok)

\* mark_alert_as_read up to the delivery SELECT: the device by token, the
\* alert by id, then scalar_one_or_none() on the pair's delivery rows, which
\* raises MultipleResultsFound when there is more than one.
ReadLookup(r, a, tok) ==
    /\ readReq[r].pc = "idle"
    /\ \A r0 \in ReadReqs : r0 < r => readReq[r0].pc # "idle"
    /\ readReq' = [readReq EXCEPT ![r] =
         IF tok \notin DOMAIN devices
         THEN [IdleRead EXCEPT !.pc = "done", !.alert = a, !.token = tok,
                  !.resp = [code |-> 404, message |-> "Device not found"]]
         ELSE IF a \notin DOMAIN alerts
         THEN [IdleRead EXCEPT !.pc = "done", !.alert = a, !.token = tok,
                  !.resp = [code |-> 404, message |-> "Alert not found"]]
         ELSE IF Cardinality(RowsOf(a, tok)) > 1
         THEN [IdleRead EXCEPT !.pc = "done", !.alert = a, !.token = tok,
                  !.resp = [code |-> 500, message |-> "MultipleResultsFound"]]
         ELSE IF RowsOf(a, tok) = {}
         THEN [IdleRead EXCEPT !.pc = "found", !.alert = a, !.token = tok,
                  !.alert_sent_at = alerts[a].sent_at]
         ELSE LET d == CHOOSE d \in RowsOf(a, tok) : TRUE IN
              [IdleRead EXCEPT !.pc = "found", !.alert = a, !.token = tok,
                  !.found = d.id, !.found_read_at = d.read_at,
                  !.alert_sent_at = alerts[a].sent_at]]
    /\ UNCHANGED <<inboxVars, cacheVars, pushVars, alerts, devices, deliveries, nextRowId, clock, sendReq,
                   tasks, pushLog>>

\* ReadAtUnset as an unconditional overwrite.
ReadAtUnset_Always(found_read_at) == TRUE

\* `if not delivery.read_at` on the row the lookup loaded.
ReadAtUnset(found_read_at) == found_read_at = NoTime

\* mark_alert_as_read from read_at = datetime.now() on: stamp an existing
\* row whose loaded read_at is unset, or insert a row in status "read";
\* commit; return read_at.
ReadCommit(r) ==
    /\ readReq[r].pc = "found"
    /\ clock < MaxTime
    /\ clock' = clock + 1
    /\ LET rq == readReq[r]
           read_at == clock + 1
       IN
       /\ IF rq.found # 0
          THEN /\ deliveries' =
                    IF ReadAtUnset(rq.found_read_at)
                    THEN { IF d.id = rq.found
                           THEN [d EXCEPT !.read_at = read_at] ELSE d
                           : d \in deliveries }
                    ELSE deliveries
               /\ nextRowId' = nextRowId
          ELSE /\ deliveries' = deliveries \cup
                    { [id |-> nextRowId,
                       alert_id |-> rq.alert,
                       device_id |-> DeviceId(rq.token),
                       sent_at |-> IF rq.alert_sent_at # NoTime
                                   THEN rq.alert_sent_at ELSE read_at,
                       read_at |-> read_at,
                       provider_status |-> "read",
                       error_message |-> NULL] }
               /\ nextRowId' = nextRowId + 1
       /\ readReq' = [readReq EXCEPT ![r].pc = "done",
                         ![r].resp = [code |-> 200, read_at |-> read_at]]
    /\ UNCHANGED <<inboxVars, cacheVars, pushVars, alerts, devices, sendReq, tasks, pushLog>>

(******************************** inbox ************************************)
\* Neighborhood lists of devices, alerts and inbox requests in the targeting
\* checks: None, the empty list, and lists that do or do not overlap.
TargetHoodInputs == {NoList, ListOf({}), ListOf({"h1"}), ListOf({"h2"})}
\* lat/lon of an inbox request: a point, or NULL when either is missing.
InboxPoints == Points \cup {NULL}

\* CheckAlertMatch with a missing alert neighborhood list read as "every
\* neighborhood".
CheckAlertMatch_HoodWildcard(alert, pt, hoods) ==
    IF alert.broadcast THEN "broadcast"
    ELSE IF pt # NULL /\ \E geom \in alert.areas : ST_Contains(geom, pt)
    THEN "geo"
    ELSE IF Truthy(hoods)
            /\ (Truthy(alert.neighborhoods)
                   => hoods[1] \cap alert.neighborhoods[1] # {})
    THEN "neighborhood"
    ELSE NULL

\* CheckAlertMatch with the neighborhood test ahead of the geo test.
CheckAlertMatch_HoodFirst(alert, pt, hoods) ==
    IF alert.broadcast THEN "broadcast"
    ELSE IF Truthy(hoods) /\ Truthy(alert.neighborhoods)
            /\ hoods[1] \cap alert.neighborhoods[1] # {}
    THEN "neighborhood"
    ELSE IF pt # NULL /\ \E geom \in alert.areas : ST_Contains(geom, pt)
    THEN "geo"
    ELSE NULL

\* _check_alert_match: the match type of one alert for the coordinates and
\* neighborhoods get_inbox passes, NULL for no match.
CheckAlertMatch(alert, pt, hoods) ==
    IF alert.broadcast THEN "broadcast"
    ELSE IF pt # NULL /\ \E geom \in alert.areas : ST_Contains(geom, pt)
    THEN "geo"
    ELSE IF Truthy(hoods) /\ Truthy(alert.neighborhoods)
            /\ hoods[1] \cap alert.neighborhoods[1] # {}
    THEN "neighborhood"
    ELSE NULL

\* The neighborhoods get_inbox evaluates with: the request's, or the stored
\* ones when the request gives none.
InboxNeighborhoods(dev, hoods) ==
    IF Truthy(dev.neighborhoods) /\ ~Truthy(hoods)
    THEN dev.neighborhoods ELSE hoods

\* read_at of the delivery row get_inbox keeps for an alert: its dict keeps
\* one row per alert_id, whichever the query returned last.
InboxReadAts(a, tok) ==
    IF RowsOf(a, tok) = {} THEN {NoTime}
    ELSE { d.read_at : d \in RowsOf(a, tok) }

NoInbox == [called |-> FALSE, token |-> NULL, point |-> NULL,
            neighborhoods |-> NoList, items |-> {}, unread_count |-> 0]

\* get_inbox without severity or neighborhood filter: the sent alerts that
\* match the request, each with its match type and read state.  The stored
\* last_location is not used (the extraction is left as a TODO); expires_at
\* is not set on the alerts of this model.
GetInbox(tok, pt, hoods, unread_only) ==
    /\ IF tok \notin DOMAIN devices
       THEN inbox' = [NoInbox EXCEPT !.called = TRUE, !.token = tok,
                         !.point = pt, !.neighborhoods = hoods]
       ELSE LET used    == InboxNeighborhoods(devices[tok], hoods)
                matched == { a \in DOMAIN alerts :
                               /\ alerts[a].status = "sent"
                               /\ CheckAlertMatch(alerts[a], pt, used) # NULL }
            IN \E ra \in [matched -> 0..(MaxTime + 1)] :
                 /\ \A a \in matched : ra[a] \in InboxReadAts(a, tok)
                 /\ inbox' =
                      [called |-> TRUE, token |-> tok, point |-> pt,
                       neighborhoods |-> used,
                       items |-> { [id |-> a,
                                    match_type |->
                                       CheckAlertMatch(alerts[a], pt, used),
                                    is_read |-> ra[a] # NoTime,
                                    read_at |-> ra[a]]
                                   : a \in { m \in matched :
                                       ~(unread_only /\ ra[m] # NoTime) } },
                       unread_count |->
                          Cardinality({ a \in matched : ra[a] = NoTime })]
    /\ UNCHANGED <<storeVars, cacheVars, pushVars, alertStats>>

(**************************** delivery stats *******************************)
\* The alert ids the stats endpoint is asked about.
StatsAlertIds == {"a1", "a2", "a3"}
\* The provider statuses of the AlertDelivery entity.
DeliveryStatuses == {"pending", "sent", "failed", "invalid_token", "read"}

RECURSIVE SumCounts(_, _)
\* The sum of the counts of the groups S.
SumCounts(count, S) ==
    IF S = {} THEN 0
    ELSE LET st == CHOOSE x \in S : TRUE
         IN count[st] + SumCounts(count, S \ {st})

\* DeliveryStats with the rows in status "read" left out of the total.
DeliveryStats_ReadNotCounted(a) ==
    LET rows   == { d \in deliveries : d.alert_id = a }
        groups == { d.provider_status : d \in rows }
        count  == [st \in groups |->
                     Cardinality({ d \in rows : d.provider_status = st })]
    IN [total   |-> SumCounts(count, groups \ {"read"}),
        sent    |-> SumCounts(count, groups \cap {"sent"}),
        pending |-> SumCounts(count, groups \cap {"pending"}),
        failed  |-> SumCounts(count, groups \cap
                       {"failed", "invalid_token", "expired_token"})]

\* get_delivery_stats: the alert's rows counted per provider_status by one
\* GROUP BY query, every group added to the total and to the counter of its
\* status.
DeliveryStats(a) ==
    LET rows   == { d \in deliveries : d.alert_id = a }
        groups == { d.provider_status : d \in rows }
        count  == [st \in groups |->
                     Cardinality({ d \in rows : d.provider_status = st })]
    IN [total   |-> SumCounts(count, groups),
        sent    |-> SumCounts(count, groups \cap {"sent"}),
        pending |-> SumCounts(count, groups \cap {"pending"}),
        failed  |-> SumCounts(count, groups \cap
                       {"failed", "invalid_token", "expired_token"})]

NoAlertStats == [called |-> FALSE, alert_id |-> NULL, code |-> 0,
                 selected_devices |-> 0, sent |-> 0, pending |-> 0,
                 failed |-> 0]

\* GET /alerts/{id}/stats: get_alert answers 404 for a missing alert, else
\* the counts of get_delivery_stats, the total as selected_devices.
GetAlertStats(a) ==
    /\ alertStats' =
          IF a \notin DOMAIN alerts
          THEN [NoAlertStats EXCEPT !.called = TRUE, !.alert_id = a,
                                    !.code = 404]
          ELSE [called |-> TRUE, alert_id |-> a, code |-> 200,
                selected_devices |-> DeliveryStats(a).total,
                sent |-> DeliveryStats(a).sent,
                pending |-> DeliveryStats(a).pending,
                failed |-> DeliveryStats(a).failed]
    /\ UNCHANGED <<storeVars, cacheVars, pushVars, inbox>>

(***************************** delivery job ********************************)
PushOutcomes == {"sent", "invalid_token", "failed"}

\* _mock_send: the PushResult of one notification, by the branch taken.
MockSend(tok, outcome) ==
    IF outcome = "sent"
    THEN [device_token |-> tok, success |-> TRUE, provider_status |-> "sent",
          error_message |-> NULL, message_id |-> "mock_id"]
    ELSE IF outcome = "invalid_token"
    THEN [device_token |-> tok, success |-> FALSE,
          provider_status |-> "invalid_token",
          error_message |-> "Device token is no longer valid",
          message_id |-> NULL]
    ELSE [device_token |-> tok, success |-> FALSE,
          provider_status |-> "failed",
          error_message |-> "Temporary provider failure",
          message_id |-> NULL]

\* ResultError reading the field the dataclass does have.
ResultError_ErrorMessage(res) == res.error_message

\* `push_result.error`: an attribute read on the PushResult dataclass, which
\* has the fields device_token, success, provider_status, error_message and
\* message_id.
ResultError(res) ==
    IF "error" \in DOMAIN res THEN res.error ELSE "AttributeError"

\* The AlertDeliveryModel built for one PushResult.
DeliveryFor(a, res, id, now) ==
    [id |-> id,
     alert_id |-> a,
     device_id |-> DeviceId(res.device_token),
     sent_at |-> now,
     read_at |-> NoTime,
     provider_status |-> IF res.success THEN "sent" ELSE "failed",
     error_message |-> ResultError(res)]

\* self.retry(exc=e): requeue the same task id, or give up after max_retries.
Retry(task) ==
    IF task.retries < MaxRetries
    THEN [task EXCEPT !.pc = "queued", !.retries = @ + 1, !.remaining = {},
                      !.result = NULL]
    ELSE [task EXCEPT !.pc = "failed", !.remaining = {}, !.result = NULL]

\* Leaving _send_alert with a return value: the finally block closes the
\* provider and disposes the engine; an exception raised there replaces the
\* return value and reaches send_alert_task.
Finish(task, result, cleanupFails) ==
    IF cleanupFails
    THEN Retry(task)
    ELSE [task EXCEPT !.pc = "done", !.remaining = {}, !.result = result]

\* A send_alert_task message that send_alert did not enqueue (the task is
\* callable with any alert id).  Task ids are taken in order.
EnqueueTask(t, a) ==
    /\ t > NumSendReqs
    /\ tasks[t].pc = "free"
    /\ \A t0 \in TaskIds : (NumSendReqs < t0 /\ t0 < t) => tasks[t0].pc # "free"
    /\ tasks' = [tasks EXCEPT ![t] = [IdleTask EXCEPT !.pc = "queued",
                                                      !.alert = a]]
    /\ UNCHANGED <<inboxVars, cacheVars, pushVars, alerts, devices, deliveries, nextRowId, clock, sendReq,
                   readReq, pushLog>>

\* create_async_engine / PushProvider() raise before the try block.
JobSetupFails(t) ==
    /\ tasks[t].pc = "queued"
    /\ tasks' = [tasks EXCEPT ![t] = Retry(tasks[t])]
    /\ UNCHANGED <<inboxVars, cacheVars, pushVars, alerts, devices, deliveries, nextRowId, clock, sendReq,
                   readReq, pushLog>>

\* JobAbort without the status test.
JobAbort_MissingOnly(a) ==
    IF a \notin DOMAIN alerts THEN "not_found" ELSE NULL

\* The two early returns of _send_alert on the reloaded alert; NULL when the
\* job goes on.
JobAbort(a) ==
    IF a \notin DOMAIN alerts THEN "not_found"
    ELSE IF alerts[a].status # "sent" THEN "not_sent"
    ELSE NULL

\* JobStart ending without a dispatch when the send request counted no
\* device.
JobStart_TrustsCount(t, cleanupFails) ==
    /\ tasks[t].pc = "queued"
    /\ LET a == tasks[t].alert IN
       tasks' = [tasks EXCEPT ![t] =
         IF JobAbort(a) # NULL
         THEN Finish(tasks[t], JobAbort(a), cleanupFails)
         ELSE IF TargetedDevices(alerts[a]) = {}
                 \/ (t \in SendReqs /\ sendReq[t].count = 0)
         THEN Finish(tasks[t], "no_devices", cleanupFails)
         ELSE [tasks[t] EXCEPT !.pc = "dispatch",
                               !.remaining = TargetedDevices(alerts[a])]]
    /\ UNCHANGED <<inboxVars, cacheVars, pushVars, alerts, devices, deliveries, nextRowId, clock, sendReq,
                   readReq, pushLog>>

\* _send_alert up to the batch loop: reload the alert, abort unless it is
\* sent, resolve the targeted devices, stop when there are none.
JobStart(t, cleanupFails) ==
    /\ tasks[t].pc = "queued"
    /\ LET a == tasks[t].alert IN
       tasks' = [tasks EXCEPT ![t] =
         IF JobAbort(a) # NULL
         THEN Finish(tasks[t], JobAbort(a), cleanupFails)
         ELSE IF TargetedDevices(alerts[a]) = {}
         THEN Finish(tasks[t], "no_devices", cleanupFails)
         ELSE [tasks[t] EXCEPT !.pc = "dispatch",
                               !.remaining = TargetedDevices(alerts[a])]]
    /\ UNCHANGED <<inboxVars, cacheVars, pushVars, alerts, devices, deliveries, nextRowId, clock, sendReq,
                   readReq, pushLog>>

\* One iteration of the batch loop: send_batch on the next batch_size
\* notifications, then one AlertDeliveryModel per result and a commit.  An
\* exception while the rows are built leaves the session uncommitted and is
\* caught by `except Exception`, which returns a failure dict.
JobBatch(t, outcomes, cleanupFails) ==
    /\ tasks[t].pc = "dispatch"
    /\ clock < MaxTime
    /\ clock' = clock + 1
    /\ \E batch \in SUBSET tasks[t].remaining :
       /\ Cardinality(batch) = Min(JobBatchSize, Cardinality(tasks[t].remaining))
       /\ \E outcome \in [batch -> outcomes] :
          LET results == { MockSend(tok, outcome[tok]) : tok \in batch }
              order   == SetToSeq(results)
              rows    == { DeliveryFor(tasks[t].alert, order[i],
                                       nextRowId + i - 1, clock + 1)
                           : i \in 1..Cardinality(results) }
              raised  == \E row \in rows : row.error_message = "AttributeError"
              rest    == tasks[t].remaining \ batch
          IN
          /\ pushLog' = pushLog \cup { [task |-> t, result |-> res]
                                       : res \in results }
          /\ IF raised
             THEN /\ deliveries' = deliveries
                  /\ nextRowId' = nextRowId
                  /\ tasks' = [tasks EXCEPT ![t] =
                                  Finish(tasks[t], "error", cleanupFails)]
             ELSE /\ deliveries' = deliveries \cup rows
                  /\ nextRowId' = nextRowId + Cardinality(rows)
                  /\ tasks' = [tasks EXCEPT ![t] =
                       IF rest = {}
                       THEN Finish(tasks[t], "ok", cleanupFails)
                       ELSE [tasks[t] EXCEPT !.remaining = rest]]
    /\ UNCHANGED <<inboxVars, cacheVars, pushVars, alerts, devices, sendReq, readReq>>

(******************************* cache *************************************)
DataSources == {"weather", "radar"}
Payloads    == {"w1", "w2"}          \* what a provider returns
\* Seconds that pass between two steps of the model.
TickSteps   == {10}
NoStamp     == -1                    \* a missing timestamp, age or cached_at

\* settings.cache_ttl_weather_now, settings.cache_ttl_radar
NominalTtl(src) == IF src = "weather" THEN 60 ELSE 180

\* FallbackTtl without the factor two.
FallbackTtl_Nominal(src) == NominalTtl(src)

\* ttl_seconds = settings.cache_ttl_* * 2
FallbackTtl(src) == NominalTtl(src) * 2

\* get_latest_radar wraps cache.set in its own try/except; the call in
\* get_current_weather sits directly in the try block around the provider.
GuardsCacheSet(src) == src = "radar"

\* code of the ProviderException raised without provider and cache data
UnavailableCode(src) ==
    IF src = "weather" THEN "WEATHER_UNAVAILABLE" ELSE "RADAR_UNAVAILABLE"

NoData      == [value |-> NULL, expires |-> 0, written |-> NoStamp]
NoStampKey  == [value |-> NoStamp, expires |-> 0]
NoWrite     == [value |-> NULL, at |-> NoStamp]
NoCacheInfo == [present |-> FALSE, stale |-> FALSE, age_seconds |-> NoStamp,
                cached_at |-> NoStamp]
NoFetchResp == [kind |-> "none", data |-> NULL, cache |-> NoCacheInfo,
                code |-> NULL]
IdleFetch   == [pc |-> "idle", src |-> NULL, provider |-> NULL,
                payload |-> NULL, stamp_now |-> NoStamp, got |-> NULL,
                got_written |-> NoStamp, set_failed |-> FALSE,
                replaced |-> NULL, since_write |-> NoStamp,
                resp |-> NoFetchResp]

\* Expired with keys that never expire.
Expired_Never(entry, now) == FALSE

\* Redis drops a key written by SETEX once its time to live has passed.
Expired(entry, now) == entry.expires <= now

\* The response built on the provider's data: cache=None.
FreshResponse(payload) ==
    [kind |-> "fresh", data |-> payload, cache |-> NoCacheInfo, code |-> NULL]

\* FallbackResponse answering a missing cache entry with an empty payload.
FallbackResponse_EmptyPayload(src, got, stamp, now) ==
    [kind |-> "stale", data |-> got,
     cache |-> [present |-> TRUE, stale |-> TRUE,
                age_seconds |-> IF stamp # NoStamp THEN now - stamp ELSE NoStamp,
                cached_at |-> stamp],
     code |-> NULL]

\* CacheService.get and get_fallback on the two values read, then the
\* service's `if cached_data`: the cached payload with stale=True and the age
\* computed from the timestamp key, or ProviderException.
FallbackResponse(src, got, stamp, now) ==
    IF got = NULL
    THEN [kind |-> "error", data |-> NULL, cache |-> NoCacheInfo,
          code |-> UnavailableCode(src)]
    ELSE [kind |-> "stale", data |-> got,
          cache |-> [present |-> TRUE, stale |-> TRUE,
                     age_seconds |->
                        IF stamp # NoStamp THEN now - stamp ELSE NoStamp,
                     cached_at |-> stamp],
          code |-> NULL]

\* cache.set raised CacheException: the radar service logs it and answers
\* with the fresh data, the weather service's `except Exception` takes it
\* for a provider failure and goes on to the fallback.
AfterSetFailure(fr) ==
    IF GuardsCacheSet(fr.src)
    THEN [fr EXCEPT !.pc = "done", !.set_failed = TRUE,
                    !.resp = FreshResponse(fr.payload)]
    ELSE [fr EXCEPT !.pc = "get_data", !.set_failed = TRUE]

\* In a fetch record, `replaced` (what the SETEX overwrote), `got_written`
\* (when the payload read was stored) and `since_write` (the seconds since
\* the last store at the moment of the read) are history, not program state.
\* A request enters get_current_weather / get_latest_radar and the provider
\* answers: a result with data ("ok"), a failed result ("fail"), or an
\* exception ("raise").
FetchStart(f, src, outcome, payload) ==
    /\ fetch[f].pc \in {"idle", "done"}
    /\ \A f0 \in Fetchers : f0 < f => fetch[f0].pc # "idle"
    /\ (outcome = "ok") <=> (payload # NULL)
    /\ fetch' = [fetch EXCEPT ![f] =
          [IdleFetch EXCEPT !.pc = IF outcome = "ok" THEN "set_data"
                                   ELSE "get_data",
                            !.src = src, !.provider = outcome,
                            !.payload = payload]]
    /\ UNCHANGED <<storeVars, inboxVars, pushVars, redisTime, cacheData,
                   cacheStamp, lastWrite>>

\* CacheService.set up to the first SETEX: now = datetime.now(), then the
\* payload is stored under the data key with the fallback ttl.
CacheSetData(f, ok) ==
    /\ fetch[f].pc = "set_data"
    /\ LET fr == fetch[f] IN
       IF ok
       THEN /\ cacheData' = [cacheData EXCEPT ![fr.src] =
                   [value |-> fr.payload,
                    expires |-> redisTime + FallbackTtl(fr.src),
                    written |-> redisTime]]
            /\ lastWrite' = [lastWrite EXCEPT ![fr.src] =
                   [value |-> fr.payload, at |-> redisTime]]
            /\ fetch' = [fetch EXCEPT ![f].pc = "set_stamp",
                                      ![f].stamp_now = redisTime,
                                      ![f].replaced = cacheData[fr.src].value]
       ELSE /\ fetch' = [fetch EXCEPT ![f] = AfterSetFailure(fr)]
            /\ UNCHANGED <<cacheData, lastWrite>>
    /\ UNCHANGED <<storeVars, inboxVars, pushVars, redisTime, cacheStamp>>

\* The second SETEX of CacheService.set, on the timestamp key, and the
\* fresh response that follows it.
CacheSetStamp(f, ok) ==
    /\ fetch[f].pc = "set_stamp"
    /\ LET fr == fetch[f] IN
       IF ok
       THEN /\ cacheStamp' = [cacheStamp EXCEPT ![fr.src] =
                   [value |-> fr.stamp_now,
                    expires |-> redisTime + FallbackTtl(fr.src)]]
            /\ fetch' = [fetch EXCEPT ![f].pc = "done",
                                      ![f].resp = FreshResponse(fr.payload)]
       ELSE /\ fetch' = [fetch EXCEPT ![f] = AfterSetFailure(fr)]
            /\ UNCHANGED cacheStamp
    /\ UNCHANGED <<storeVars, inboxVars, pushVars, redisTime, cacheData,
                   lastWrite>>

\* CacheService.get, first GET: the payload under the data key.  A Redis
\* error makes get return (None, None).
CacheGetData(f, ok) ==
    /\ fetch[f].pc = "get_data"
    /\ LET fr    == fetch[f]
           since == IF lastWrite[fr.src].at = NoStamp THEN NoStamp
                    ELSE redisTime - lastWrite[fr.src].at
       IN
       fetch' = [fetch EXCEPT ![f] =
          IF ok
          THEN [fr EXCEPT !.pc = "get_stamp",
                          !.got = cacheData[fr.src].value,
                          !.got_written = cacheData[fr.src].written,
                          !.since_write = since]
          ELSE [fr EXCEPT !.pc = "done",
                          !.since_write = since,
                          !.resp = FallbackResponse(fr.src, NULL, NoStamp,
                                                    redisTime)]]
    /\ UNCHANGED <<storeVars, inboxVars, pushVars, redisTime, cacheData,
                   cacheStamp, lastWrite>>

\* CacheService.get, second GET (made whatever the first returned): the
\* timestamp key; then the age, get_fallback's stale mark and the service's
\* answer.
CacheGetStamp(f, ok) ==
    /\ fetch[f].pc = "get_stamp"
    /\ LET fr == fetch[f] IN
       fetch' = [fetch EXCEPT ![f] =
          [fr EXCEPT !.pc = "done",
                     !.resp = IF ok
                              THEN FallbackResponse(fr.src, fr.got,
                                      cacheStamp[fr.src].value, redisTime)
                              ELSE FallbackResponse(fr.src, NULL, NoStamp,
                                                    redisTime)]]
    /\ UNCHANGED <<storeVars, inboxVars, pushVars, redisTime, cacheData,
                   cacheStamp, lastWrite>>

\* Time passes; Redis drops the keys whose time to live is over.
Tick(d) ==
    /\ redisTime + d <= MaxSeconds
    /\ redisTime' = redisTime + d
    /\ cacheData' = [src \in DataSources |->
          IF cacheData[src].value # NULL
               /\ Expired(cacheData[src], redisTime + d)
          THEN NoData ELSE cacheData[src]]
    /\ cacheStamp' = [src \in DataSources |->
          IF cacheStamp[src].value # NoStamp
               /\ Expired(cacheStamp[src], redisTime + d)
          THEN NoStampKey ELSE cacheStamp[src]]
    /\ UNCHANGED <<storeVars, inboxVars, pushVars, lastWrite, fetch>>

(**************************** push provider ********************************)
INVALID_TOKEN_ERRORS ==
    {"UNREGISTERED", "INVALID_ARGUMENT", "NOT_FOUND",
     "registration-token-not-registered", "invalid-registration-token",
     "invalid-argument"}
TEMPORARY_ERROR_CODES ==
    {"UNAVAILABLE", "INTERNAL", "QUOTA_EXCEEDED", "unavailable",
     "internal-error"}

\* _handle_fcm_error tests `code in error_str or code in error_code`, a
\* substring test on two strings; a string is represented by the set of
\* listed codes that occur in it.  No listed code occurs in another one.
\* getattr(error, "code", None) or "": no attribute, or one code.
ErrorCodeAttrs == {{}, {"UNREGISTERED"}, {"UNAVAILABLE"}}
\* str(error): the message text of the exception.
ErrorTexts == {{}, {"NOT_FOUND"}, {"unavailable"}, {"INTERNAL", "NOT_FOUND"}}
FcmErrors  == [code : ErrorCodeAttrs, text : ErrorTexts]
NoError    == [code |-> {}, text |-> {}]
\* What messaging.send does and what a SendResponse of send_each holds:
\* success, or an exception.
FcmResponses == { [success |-> TRUE, error |-> NoError] }
                   \cup { [success |-> FALSE, error |-> e] : e \in FcmErrors }
OkResponse == [success |-> TRUE, error |-> NoError]

PushToken == "tokA_fcm_reg"          \* notification.device_token

\* HandleFcmError with the temporary codes tested first.
HandleFcmError_TemporaryFirst(tok, error) ==
    LET Occurs(code) == code \in error.text \/ code \in error.code IN
    IF \E code \in TEMPORARY_ERROR_CODES : Occurs(code)
    THEN [device_token |-> tok, success |-> FALSE,
          provider_status |-> "failed",
          error_message |-> "Temporary error (retry possible): str(error)",
          message_id |-> NULL]
    ELSE IF \E code \in INVALID_TOKEN_ERRORS : Occurs(code)
    THEN [device_token |-> tok, success |-> FALSE,
          provider_status |-> "invalid_token",
          error_message |-> "Token invalid or expired: str(error)",
          message_id |-> NULL]
    ELSE [device_token |-> tok, success |-> FALSE,
          provider_status |-> "failed",
          error_message |-> "str(error)",
          message_id |-> NULL]

\* _handle_fcm_error: the PushResult for an exception of the FCM SDK.
HandleFcmError(tok, error) ==
    LET Occurs(code) == code \in error.text \/ code \in error.code IN
    IF \E code \in INVALID_TOKEN_ERRORS : Occurs(code)
    THEN [device_token |-> tok, success |-> FALSE,
          provider_status |-> "invalid_token",
          error_message |-> "Token invalid or expired: str(error)",
          message_id |-> NULL]
    ELSE IF \E code \in TEMPORARY_ERROR_CODES : Occurs(code)
    THEN [device_token |-> tok, success |-> FALSE,
          provider_status |-> "failed",
          error_message |-> "Temporary error (retry possible): str(error)",
          message_id |-> NULL]
    ELSE [device_token |-> tok, success |-> FALSE,
          provider_status |-> "failed",
          error_message |-> "str(error)",
          message_id |-> NULL]

\* random.random() in hundredths.
RandDraws == {0, 94, 95, 97, 98, 99}

\* _mock_send: the branch a draw selects (95% sent, 3% invalid token, 2%
\* temporary failure).
MockOutcome(rand) ==
    IF rand < 95 THEN "sent"
    ELSE IF rand < 98 THEN "invalid_token"
    ELSE "failed"

\* In stats, `processed` (the notifications handled since reset_stats) and
\* `calls` (the provider calls since then) are history.
NoStats == [sent_count |-> 0, failed_count |-> 0, invalid_token_count |-> 0,
            processed |-> 0, calls |-> 0]

\* The counter updates next to each PushResult built in _mock_send,
\* _send_fcm, _send_fcm_batch and _handle_fcm_error.
Count(st, res) ==
    [st EXCEPT !.sent_count = @ + (IF res.success THEN 1 ELSE 0),
               !.failed_count = @ + (IF res.success THEN 0 ELSE 1),
               !.invalid_token_count =
                  @ + (IF res.provider_status = "invalid_token" THEN 1 ELSE 0)]

\* reset_stats
ResetStats ==
    /\ stats' = NoStats
    /\ UNCHANGED <<storeVars, inboxVars, cacheVars, batchRun, lastPush>>

NoPush == [called |-> FALSE, mode |-> NULL, response |-> OkResponse,
           result |-> [device_token |-> NULL, success |-> FALSE,
                       provider_status |-> NULL, error_message |-> NULL,
                       message_id |-> NULL]]

\* The PushResult of send_notification when _initialize_fcm fails.
NotInitialized(tok) ==
    [device_token |-> tok, success |-> FALSE, provider_status |-> "failed",
     error_message |-> "FCM not initialized - check credentials",
     message_id |-> NULL]

\* send_notification: _mock_send without credentials; a failed result when
\* Firebase cannot be initialised; else messaging.send, whose exception goes
\* to _handle_fcm_error.
SendNotification(mode, rand, response) ==
    /\ stats.calls < MaxCalls
    /\ mode = "mock" => response = OkResponse
    /\ mode # "mock" => rand = 0
    /\ mode = "fcm_uninit" => response = OkResponse
    /\ LET res == IF mode = "mock"
                  THEN MockSend(PushToken, MockOutcome(rand))
                  ELSE IF mode = "fcm_uninit"
                  THEN NotInitialized(PushToken)
                  ELSE IF response.success
                  THEN MockSend(PushToken, "sent")
                  ELSE HandleFcmError(PushToken, response.error)
       IN /\ lastPush' = [called |-> TRUE, mode |-> mode,
                          response |-> response, result |-> res]
          /\ stats' = [Count(stats, res) EXCEPT !.processed = @ + 1,
                                                 !.calls = @ + 1]
    /\ UNCHANGED <<storeVars, inboxVars, cacheVars, batchRun>>

(****************************** send_batch *********************************)
\* len(notifications): short lists and the list of 750.
NotificationCounts == (0..MaxNotifications) \cup {750}
\* The batch_size argument; 0 stands for None (and for 0, which `or` treats
\* alike).
BatchSizeInputs == {0, 1, 2, 3, 200, 500, 600}
\* is_mock; else whether _initialize_fcm succeeds
PushModes == {"mock", "fcm", "fcm_uninit"}

PushBatchSizeSetting == 500          \* settings.push_batch_size
FcmLimit == 500                      \* the cap in send_batch

\* EffectiveBatchSize without the FCM cap.
EffectiveBatchSize_NoCap(b) == IF b # 0 THEN b ELSE PushBatchSizeSetting

\* min(batch_size or settings.push_batch_size, 500)
EffectiveBatchSize(b) ==
    Min(IF b # 0 THEN b ELSE PushBatchSizeSetting, FcmLimit)

\* The results of a send_batch call are kept as the number of PushResults
\* of each provider_status.
NoTally == [sent |-> 0, invalid_token |-> 0, failed |-> 0]

IdleBatch == [pc |-> "idle", mode |-> NULL, n |-> 0, b |-> 0, eff |-> 0,
              i |-> 0, calls |-> <<>>, nresults |-> 0, tally |-> NoTally]

\* What happens to one slice: how many of its notifications end as an
\* invalid token, a temporary failure and an unrecognised error, or the
\* whole send_each call raising.
NoFailures == [invalid |-> 0, temporary |-> 0, unknown |-> 0, raises |-> FALSE]
SliceDraws ==
    { [invalid |-> i, temporary |-> t, unknown |-> u, raises |-> FALSE]
        : i \in 0..MaxFailures, t \in 0..MaxFailures, u \in 0..MaxFailures }
    \cup { [NoFailures EXCEPT !.raises = TRUE] }

\* The tally after the PushResults of one slice are appended.
SliceTally(tally, size, draw) ==
    IF draw.raises
    THEN [tally EXCEPT !.failed = @ + size]
    ELSE [sent |-> tally.sent
                     + (size - draw.invalid - draw.temporary - draw.unknown),
          invalid_token |-> tally.invalid_token + draw.invalid,
          failed |-> tally.failed + draw.temporary + draw.unknown]

\* send_batch up to its loop.  The notifications are numbered 1..n in list
\* order.  An empty list returns at once; with credentials configured but
\* Firebase not initialised every notification is answered "failed" without
\* a provider call and without a counter update.
SendBatchStart(n, b, mode) ==
    /\ batchRun.pc \in {"idle", "done"}
    /\ stats.calls < MaxCalls
    /\ batchRun' =
          IF n = 0
          THEN [IdleBatch EXCEPT !.pc = "done", !.mode = mode, !.b = b]
          ELSE IF mode = "fcm_uninit"
          THEN [IdleBatch EXCEPT !.pc = "done", !.mode = mode, !.n = n,
                                 !.b = b, !.eff = EffectiveBatchSize(b),
                                 !.nresults = n, !.tally.failed = n]
          ELSE [IdleBatch EXCEPT !.pc = "loop", !.mode = mode, !.n = n,
                                 !.b = b, !.eff = EffectiveBatchSize(b)]
    /\ stats' = [stats EXCEPT !.calls = @ + 1,
                              !.processed =
                                 @ + (IF mode = "fcm_uninit" THEN n ELSE 0)]
    /\ UNCHANGED <<storeVars, inboxVars, cacheVars, lastPush>>

\* One iteration of `for i in range(0, len(notifications), size)`: the slice
\* notifications[i : i + size] goes to _send_fcm_batch in one call, or
\* through _mock_send one by one; a delay follows unless it was the last.
\* Each PushResult comes with its counter update, except the results
\* _send_fcm_batch builds when send_each raises.
SendBatchStep(draw) ==
    /\ batchRun.pc = "loop"
    /\ LET r     == batchRun
           first == r.i + 1
           last  == Min(r.i + r.eff, r.n)
           size  == last - first + 1
           nfail == draw.invalid + draw.temporary + draw.unknown
       IN
       /\ nfail <= size
       /\ r.mode = "mock" => (draw.unknown = 0 /\ ~draw.raises)
       /\ batchRun' =
            [r EXCEPT !.calls = IF r.mode = "fcm"
                                THEN Append(@, [first |-> first, last |-> last])
                                ELSE @,
                      !.nresults = @ + size,
                      !.tally = SliceTally(@, size, draw),
                      !.i = r.i + r.eff,
                      !.pc = IF r.i + r.eff < r.n THEN "loop" ELSE "done"]
       /\ stats' =
            IF draw.raises
            THEN [stats EXCEPT !.processed = @ + size]
            ELSE [stats EXCEPT !.processed = @ + size,
                               !.sent_count = @ + (size - nfail),
                               !.failed_count = @ + nfail,
                               !.invalid_token_count = @ + draw.invalid]
    /\ UNCHANGED <<storeVars, inboxVars, cacheVars, lastPush>>

(************************** initial state **********************************)
\* No operation of the repository writes status "canceled"; the column's
\* enum admits it and send_alert tests for it, so a stored alert may already
\* be canceled when the service starts.
InitAlertRows ==
    { [status |-> "canceled", sent_at |-> NoTime, broadcast |-> b,
       areas |-> {}, neighborhoods |-> NoList] : b \in BOOLEAN }

Init ==
    /\ \E ids \in SUBSET AlertIds : alerts \in [ids -> InitAlertRows]
    /\ devices = <<>>
    /\ deliveries = {}
    /\ nextRowId = 1
    /\ clock = 0
    /\ sendReq = [s \in SendReqs |-> IdleSend]
    /\ readReq = [r \in ReadReqs |-> IdleRead]
    /\ tasks = [t \in TaskIds |-> IdleTask]
    /\ pushLog = {}
    /\ inbox = NoInbox
    /\ alertStats = NoAlertStats
    /\ redisTime = 0
    /\ cacheData = [src \in DataSources |-> NoData]
    /\ cacheStamp = [src \in DataSources |-> NoStampKey]
    /\ lastWrite = [src \in DataSources |-> NoWrite]
    /\ fetch = [f \in Fetchers |-> IdleFetch]
    /\ batchRun = IdleBatch
    /\ stats = NoStats
    /\ lastPush = NoPush

Next ==
    \/ \E rt \in RawTokens, hoods \in DeviceHoodInputs : RegisterDevice(rt, hoods)
    \/ \E tok \in Tokens, pt \in Points : UpdateLocation(tok, pt)
    \/ \E a \in AlertIds, b \in BOOLEAN, area \in AreaInputs,
          hoods \in AlertHoodInputs : CreateAlert(a, b, area, hoods)
    \/ \E s \in SendReqs, a \in AlertIds : SendLoad(s, a)
    \/ \E s \in SendReqs, brokerUp \in BOOLEAN : SendCommit(s, brokerUp)
    \/ \E r \in ReadReqs, a \in AlertIds, tok \in Tokens : ReadLookup(r, a, tok)
    \/ \E r \in ReadReqs : ReadCommit(r)
    \/ \E t \in TaskIds, a \in AlertIds : EnqueueTask(t, a)
    \/ \E t \in TaskIds : JobSetupFails(t)
    \/ \E t \in TaskIds, cleanupFails \in BOOLEAN : JobStart(t, cleanupFails)
    \/ \E t \in TaskIds, cleanupFails \in BOOLEAN :
          JobBatch(t, PushOutcomes, cleanupFails)
    \/ \E tok \in Tokens, pt \in InboxPoints, hoods \in TargetHoodInputs,
          unread_only \in BOOLEAN : GetInbox(tok, pt, hoods, unread_only)
    \/ \E a \in StatsAlertIds : GetAlertStats(a)
    \/ \E f \in Fetchers, src \in DataSources,
          outcome \in ProviderOutcomes, payload \in Payloads \cup {NULL} :
          FetchStart(f, src, outcome, payload)
    \/ \E f \in Fetchers, ok \in BOOLEAN : CacheSetData(f, ok)
    \/ \E f \in Fetchers, ok \in BOOLEAN : CacheSetStamp(f, ok)
    \/ \E f \in Fetchers, ok \in BOOLEAN : CacheGetData(f, ok)
    \/ \E f \in Fetchers, ok \in BOOLEAN : CacheGetStamp(f, ok)
    \/ \E d \in TickSteps : Tick(d)
    \/ \E n \in NotificationCounts, b \in BatchSizeInputs,
          mode \in PushModes : SendBatchStart(n, b, mode)
    \/ \E draw \in SliceDraws : SendBatchStep(draw)
    \/ \E mode \in PushModes, rand \in RandDraws, response \in FcmResponses :
          SendNotification(mode, rand, response)
    \/ ResetStats

Spec == Init /\ [][Next]_vars

\* The stored tables the stats query is evaluated on: two sent alerts, two
\* registered devices, and for every (alert, device) pair no row or one row
\* in any provider status.
StatsPairs == {"a1", "a2"} \X Tokens
StatsRowId(pair) ==
    (IF pair[1] = "a1" THEN 0 ELSE 2) + (IF pair[2] = "" THEN 1 ELSE 2)
InitStats ==
    /\ alerts = [a \in {"a1", "a2"} |->
                   [status |-> "sent", sent_at |-> 1, broadcast |-> TRUE,
                    areas |-> {}, neighborhoods |-> NoList]]
    /\ devices = [tok \in Tokens |->
                    [push_token |-> tok, last_location |-> NULL,
                     neighborhoods |-> NoList]]
    /\ \E st \in [StatsPairs -> DeliveryStatuses \cup {NULL}] :
          deliveries =
             { [id |-> StatsRowId(pair),
                alert_id |-> pair[1],
                device_id |-> DeviceId(pair[2]),
                sent_at |-> 1,
                read_at |-> IF st[pair] = "read" THEN 1 ELSE NoTime,
                provider_status |-> st[pair],
                error_message |-> NULL]
               : pair \in { q \in StatsPairs : st[q] # NULL } }
    /\ nextRowId = 5
    /\ clock = 1
    /\ sendReq = [s \in SendReqs |-> IdleSend]
    /\ readReq = [r \in ReadReqs |-> IdleRead]
    /\ tasks = [t \in TaskIds |-> IdleTask]
    /\ pushLog = {}
    /\ inbox = NoInbox
    /\ alertStats = NoAlertStats
    /\ redisTime = 0
    /\ cacheData = [src \in DataSources |-> NoData]
    /\ cacheStamp = [src \in DataSources |-> NoStampKey]
    /\ lastWrite = [src \in DataSources |-> NoWrite]
    /\ fetch = [f \in Fetchers |-> IdleFetch]
    /\ batchRun = IdleBatch
    /\ stats = NoStats
    /\ lastPush = NoPush

\* The stats endpoint on every such table, with a reader marking alerts as
\* read in between.
NextStats ==
    \/ \E a \in StatsAlertIds : GetAlertStats(a)
    \/ \E a \in AlertIds, tok \in Tokens : ReadLookup(1, a, tok)
    \/ ReadCommit(1)

SpecStats == InitStats /\ [][NextStats]_vars

\* The send path on its own: alert creation with every targeting rule,
\* device registration and movement, and the two halves of send_alert.
NextSend ==
    \/ \E rt \in RawTokens, hoods \in DeviceHoodInputs : RegisterDevice(rt, hoods)
    \/ \E tok \in Tokens, pt \in Points : UpdateLocation(tok, pt)
    \/ \E a \in AlertIds, b \in BOOLEAN, area \in AreaInputs,
          hoods \in AlertHoodInputs : CreateAlert(a, b, area, hoods)
    \/ \E s \in SendReqs, a \in AlertIds : SendLoad(s, a)
    \/ \E s \in SendReqs, brokerUp \in BOOLEAN : SendCommit(s, brokerUp)

SpecSend == Init /\ [][NextSend]_vars

\* The worker on its own: one send request, the task it enqueues and tasks
\* delivered from elsewhere, with every push outcome.  Alerts are created
\* without areas and devices do not move.
NextJob ==
    \/ \E rt \in RawTokens, hoods \in DeviceHoodInputs : RegisterDevice(rt, hoods)
    \/ \E a \in AlertIds, b \in BOOLEAN, hoods \in AlertHoodInputs :
          CreateAlert(a, b, NoList, hoods)
    \/ \E a \in AlertIds : SendLoad(1, a)
    \/ \E brokerUp \in BOOLEAN : SendCommit(1, brokerUp)
    \/ \E t \in TaskIds, a \in AlertIds : EnqueueTask(t, a)
    \/ \E t \in TaskIds : JobStart(t, FALSE)
    \/ \E t \in TaskIds : JobBatch(t, PushOutcomes, FALSE)

SpecJob == Init /\ [][NextJob]_vars

\* The worker under Celery's retry: as NextJob, with the failures that
\* escape _send_alert (before the try block, or in its finally block) and
\* every push accepted.
NextRetry ==
    \/ \E rt \in RawTokens : RegisterDevice(rt, NoList)
    \/ \E a \in AlertIds : CreateAlert(a, TRUE, NoList, NoList)
    \/ \E a \in AlertIds : SendLoad(1, a)
    \/ SendCommit(1, TRUE)
    \/ \E t \in TaskIds, a \in AlertIds : EnqueueTask(t, a)
    \/ \E t \in TaskIds : JobSetupFails(t)
    \/ \E t \in TaskIds, cleanupFails \in BOOLEAN : JobStart(t, cleanupFails)
    \/ \E t \in TaskIds, cleanupFails \in BOOLEAN :
          JobBatch(t, {"sent"}, cleanupFails)

SpecRetry == Init /\ [][NextRetry]_vars

\* Readers against the worker: the read requests interleaved with one send
\* request and the executions of the tasks, every push accepted and no
\* failure outside the try block.  One device registers, with or without
\* neighborhoods; reads under the other token find no device.
NextInbox ==
    \/ \E hoods \in DeviceHoodInputs :
          RegisterDevice([core |-> "tokA_fcm_reg", pad |-> 0], hoods)
    \/ \E a \in AlertIds, b \in BOOLEAN : CreateAlert(a, b, NoList, ListOf({"h1"}))
    \/ \E a \in AlertIds : SendLoad(1, a)
    \/ SendCommit(1, TRUE)
    \/ \E r \in ReadReqs, a \in AlertIds, tok \in Tokens : ReadLookup(r, a, tok)
    \/ \E r \in ReadReqs : ReadCommit(r)
    \/ \E t \in TaskIds, a \in AlertIds : EnqueueTask(t, a)
    \/ \E t \in TaskIds : JobStart(t, FALSE)
    \/ \E t \in TaskIds : JobBatch(t, {"sent"}, FALSE)

SpecInbox == Init /\ [][NextInbox]_vars

\* Targeting on its own: one device that registers, subscribes and moves,
\* alerts with every targeting rule, one send request, and the inbox.
NextTarget ==
    \/ \E hoods \in TargetHoodInputs :
          RegisterDevice([core |-> "tokA_fcm_reg", pad |-> 0], hoods)
    \/ \E pt \in Points : UpdateLocation("tokA_fcm_reg", pt)
    \/ \E a \in AlertIds, b \in BOOLEAN, area \in AreaInputs,
          hoods \in TargetHoodInputs : CreateAlert(a, b, area, hoods)
    \/ \E a \in AlertIds : SendLoad(1, a)
    \/ SendCommit(1, TRUE)
    \/ \E tok \in Tokens, pt \in InboxPoints, hoods \in TargetHoodInputs,
          unread_only \in BOOLEAN : GetInbox(tok, pt, hoods, unread_only)

SpecTarget == Init /\ [][NextTarget]_vars

\* The weather service against a Redis that answers every command: one
\* request after another, every provider outcome, and time.
NextExpiry ==
    \/ \E outcome \in ProviderOutcomes, payload \in Payloads \cup {NULL} :
          FetchStart(1, "weather", outcome, payload)
    \/ \E f \in Fetchers : CacheSetData(f, TRUE)
    \/ \E f \in Fetchers : CacheSetStamp(f, TRUE)
    \/ \E f \in Fetchers : CacheGetData(f, TRUE)
    \/ \E f \in Fetchers : CacheGetStamp(f, TRUE)
    \/ \E d \in TickSteps : Tick(d)

SpecExpiry == Init /\ [][NextExpiry]_vars

\* The weather and the radar service side by side at one instant: every
\* provider outcome and Redis commands that fail, no expiry.
NextSources ==
    \/ \E src \in DataSources, outcome \in ProviderOutcomes,
          payload \in Payloads \cup {NULL} : FetchStart(1, src, outcome, payload)
    \/ \E f \in Fetchers, ok \in BOOLEAN : CacheSetData(f, ok)
    \/ \E f \in Fetchers, ok \in BOOLEAN : CacheSetStamp(f, ok)
    \/ \E f \in Fetchers, ok \in BOOLEAN : CacheGetData(f, ok)
    \/ \E f \in Fetchers, ok \in BOOLEAN : CacheGetStamp(f, ok)

SpecSources == Init /\ [][NextSources]_vars

\* A writer and a reader on the weather key: two requests whose Redis
\* commands interleave, every provider outcome, a Redis that answers every
\* command, and time passing in steps too short for a key to expire.
NextRace ==
    \/ \E f \in {1, 2}, outcome \in ProviderOutcomes,
          payload \in Payloads \cup {NULL} :
          FetchStart(f, "weather", outcome, payload)
    \/ \E f \in {1, 2} : CacheSetData(f, TRUE)
    \/ \E f \in {1, 2} : CacheSetStamp(f, TRUE)
    \/ \E f \in {1, 2} : CacheGetData(f, TRUE)
    \/ \E f \in {1, 2} : CacheGetStamp(f, TRUE)
    \/ Tick(50)

SpecRace == Init /\ [][NextRace]_vars

\* send_batch on its own, every push accepted: short lists with every batch
\* size, the list of 750 with the batch sizes of 200 and more.
NextPush ==
    \/ \E n \in NotificationCounts, b \in BatchSizeInputs, mode \in PushModes :
          /\ n > MaxNotifications => b \notin 1..3
          /\ SendBatchStart(n, b, mode)
    \/ SendBatchStep(NoFailures)

SpecPush == Init /\ [][NextPush]_vars

\* Devices that change between the send request and the job: devices that
\* register, change their neighborhoods and move, alerts with every
\* targeting rule, one send request and the job it enqueues.
NextDispatch ==
    \/ \E rt \in RawTokens, hoods \in DeviceHoodInputs : RegisterDevice(rt, hoods)
    \/ \E tok \in Tokens, pt \in Points : UpdateLocation(tok, pt)
    \/ \E a \in AlertIds, b \in BOOLEAN, area \in AreaInputs,
          hoods \in AlertHoodInputs : CreateAlert(a, b, area, hoods)
    \/ \E a \in AlertIds : SendLoad(1, a)
    \/ SendCommit(1, TRUE)
    \/ \E t \in TaskIds : JobStart(t, FALSE)
    \/ \E t \in TaskIds : JobBatch(t, PushOutcomes, FALSE)

SpecDispatch == Init /\ [][NextDispatch]_vars

\* Single sends in every mode, with every draw of the simulation and every
\* answer of the FCM SDK.
NextClassify ==
    \/ ResetStats
    \/ \E mode \in PushModes, rand \in RandDraws, response \in FcmResponses :
          SendNotification(mode, rand, response)

SpecClassify == Init /\ [][NextClassify]_vars

\* The provider's counters: single sends and batches of lists of up to
\* three notifications in every mode, with no failure or one failure in a
\* slice, or the batch call raising.
NextCounters ==
    \/ ResetStats
    \/ \E mode \in PushModes, rand \in {0, 95},
          response \in { r \in FcmResponses :
                           r.error.code = {} /\ r.error.text \subseteq {"NOT_FOUND"} } :
          SendNotification(mode, rand, response)
    \/ \E n \in {0, 1, 3}, b \in {0, 2}, mode \in PushModes :
          SendBatchStart(n, b, mode)
    \/ \E draw \in { d \in SliceDraws :
                        d.invalid + d.temporary + d.unknown <= 1 } :
          SendBatchStep(draw)

SpecCounters == Init /\ [][NextCounters]_vars

(******************************* claims ************************************)

C2_AtMostOneRowPerPair ==
    \A a \in AlertIds, tok \in Tokens : Cardinality(RowsOf(a, tok)) <= 1

\* C3: a send call that finds the alert sent or canceled is answered 422,
\* leaves the alerts table as it is, and does nothing afterwards.
C3_SendOnSentOrCanceledRejected ==
    [][\A s \in SendReqs :
         /\ ( /\ sendReq[s].pc = "idle"
              /\ sendReq'[s].pc # "idle"
              /\ sendReq'[s].alert \in DOMAIN alerts
              /\ alerts[sendReq'[s].alert].status \in {"sent", "canceled"} )
            => ( /\ sendReq'[s].pc = "done"
                 /\ sendReq'[s].resp.code = 422
                 /\ alerts' = alerts )
         /\ sendReq[s].resp.code = 422 => sendReq'[s] = sendReq[s]
      ]_vars

\* A send call on an alert that an earlier call had sent was rejected, and
\* the alert still carries the first call's stamp.
C3_Witness ==
    \E s1, s2 \in SendReqs :
       /\ sendReq[s1].resp.code = 200
       /\ sendReq[s2].resp.code = 422
       /\ sendReq[s2].alert = sendReq[s1].alert
       /\ alerts[sendReq[s1].alert].status = "sent"
       /\ alerts[sendReq[s1].alert].sent_at = sendReq[s1].resp.sent_at

\* C4: an alert's status changes only from draft to sent or from draft to
\* canceled, a new alert is a draft, no alert disappears, and sent_at is set
\* exactly when the status is sent.
C4_StatusMonotoneSentAtIffSent ==
    [][ /\ \A a \in DOMAIN alerts :
              /\ (alerts[a].sent_at # NoTime) <=> (alerts[a].status = "sent")
              /\ a \in DOMAIN alerts'
              /\ alerts'[a].status # alerts[a].status
                    => /\ alerts[a].status = "draft"
                       /\ alerts'[a].status \in {"sent", "canceled"}
        /\ \A a \in DOMAIN alerts' :
              /\ (alerts'[a].sent_at # NoTime) <=> (alerts'[a].status = "sent")
              /\ a \notin DOMAIN alerts => alerts'[a].status = "draft"
      ]_vars

\* An alert has gone from draft to sent while two send calls raced on it.
C4_Witness ==
    \E s1, s2 \in SendReqs :
       /\ s1 # s2
       /\ sendReq[s1].resp.code = 200
       /\ sendReq[s2].resp.code = 200
       /\ sendReq[s1].alert = sendReq[s2].alert
       /\ alerts[sendReq[s1].alert].status = "sent"
       /\ alerts[sendReq[s1].alert].sent_at # NoTime

\* C5: once a job execution that dispatched has ended, every device it
\* pushed to has an alert_deliveries row for the alert with the provider
\* status and error text of that device's PushResult.
C5_EveryTargetedDeviceRecorded ==
    \A t \in TaskIds :
       (tasks[t].pc = "done" /\ tasks[t].result \in {"ok", "error"}) =>
          \A e \in pushLog :
             e.task = t =>
                \E d \in deliveries :
                   /\ d.alert_id = tasks[t].alert
                   /\ d.device_id = DeviceId(e.result.device_token)
                   /\ d.provider_status = e.result.provider_status
                   /\ d.error_message = e.result.error_message

\* C6: no job ends for good on an unexpected exception raised while it
\* dispatched or recorded a batch; such an execution is retried.
C6_ExceptionIsRetried ==
    \A t \in TaskIds : ~(tasks[t].pc = "done" /\ tasks[t].result = "error")

\* C7: every successful send response belongs to an alert in status sent,
\* carries the device count and the id of a job that was enqueued for that
\* alert.
C7_SendEnqueuesJob ==
    \A s \in SendReqs :
       sendReq[s].resp.code = 200 =>
          /\ alerts[sendReq[s].alert].status = "sent"
          /\ sendReq[s].resp.status = "sent"
          /\ sendReq[s].resp.devices_targeted = sendReq[s].count
          /\ sendReq[s].resp.task_id # NoTask
          /\ tasks[sendReq[s].resp.task_id].pc # "free"
          /\ tasks[sendReq[s].resp.task_id].alert = sendReq[s].alert

\* C8: a job execution that starts on a missing, draft or canceled alert ends
\* at once with an abort result, without a push call and without touching
\* alert_deliveries, and an ended execution does nothing more.
C8_JobAbortsUnlessSent ==
    [][\A t \in TaskIds :
         /\ ( /\ tasks[t].pc = "queued"
              /\ tasks'[t] # tasks[t]
              /\ \/ tasks[t].alert \notin DOMAIN alerts
                 \/ alerts[tasks[t].alert].status # "sent" )
            => ( /\ tasks'[t].pc = "done"
                 /\ tasks'[t].result \in {"not_found", "not_sent"}
                 /\ pushLog' = pushLog
                 /\ deliveries' = deliveries )
         /\ tasks[t].pc = "done" => tasks'[t] = tasks[t]
      ]_vars

\* A job has aborted on a draft or canceled alert that targets a registered
\* device.
C8_Witness ==
    \E t \in TaskIds :
       /\ tasks[t].pc = "done"
       /\ tasks[t].result = "not_sent"
       /\ tasks[t].alert \in DOMAIN alerts
       /\ alerts[tasks[t].alert].status # "sent"
       /\ TargetedDevices(alerts[tasks[t].alert]) # {}
       /\ \A e \in pushLog : e.task # t

C10_BroadcastTargetsNonEmptyTokens ==
    [][\A s \in SendReqs :
         ( /\ sendReq[s].pc = "idle"
           /\ sendReq'[s].pc = "loaded"
           /\ alerts[sendReq'[s].alert].broadcast )
         => /\ TargetedDevices(alerts[sendReq'[s].alert])
                  = { tok \in DOMAIN devices : tok # "" }
            /\ sendReq'[s].count
                  = Cardinality({ tok \in DOMAIN devices : tok # "" })
      ]_vars

\* C11: after every step, for every alert without broadcast and every device
\* with a stored location, the device is in the target set exactly when some
\* area of the alert contains its point; so a device that has moved outside
\* every area is no longer targeted.
C11_GeoMatchIffContained ==
    [][\A a \in DOMAIN alerts', tok \in DOMAIN devices' :
         (~alerts'[a].broadcast /\ devices'[tok].last_location # NULL) =>
            ( (tok \in TargetedDevices(alerts[a]))'
              <=> \E geom \in alerts'[a].areas :
                     ST_Contains(geom, devices'[tok].last_location) )
      ]_vars

\* A device was counted as the one target of a sent alert that has an area
\* and no neighborhoods, has since moved outside the area, and is not
\* targeted any more although it still has neighborhoods.
C11_Witness ==
    /\ sendReq[1].resp.code = 200
    /\ sendReq[1].resp.devices_targeted = 1
    /\ LET al == alerts[sendReq[1].alert] IN
       /\ ~al.broadcast /\ al.areas # {} /\ al.neighborhoods = NoList
       /\ TargetedDevices(al) = {}
    /\ \E tok \in DOMAIN devices :
          /\ devices[tok].last_location = "pOut"
          /\ Truthy(devices[tok].neighborhoods)

\* C12: for every alert without broadcast and every device without a stored
\* location, the device is in the target set exactly when its neighborhoods
\* and the alert's have an element in common; and an inbox evaluation
\* without coordinates for such a device labels a sent alert "neighborhood"
\* exactly when the neighborhoods it evaluates with and the alert's have an
\* element in common.
C12_NeighborhoodMatchIffOverlap ==
    [][\A a \in DOMAIN alerts', tok \in DOMAIN devices' :
         (~alerts'[a].broadcast /\ devices'[tok].last_location = NULL) =>
            LET ah == IF alerts'[a].neighborhoods = NoList THEN {}
                      ELSE alerts'[a].neighborhoods[1]
                dh == IF devices'[tok].neighborhoods = NoList THEN {}
                      ELSE devices'[tok].neighborhoods[1]
                ih == IF inbox'.neighborhoods = NoList THEN {}
                      ELSE inbox'.neighborhoods[1]
            IN /\ (tok \in TargetedDevices(alerts[a]))' <=> (dh \cap ah # {})
               /\ ( /\ inbox' # inbox
                    /\ inbox'.token = tok
                    /\ inbox'.point = NULL
                    /\ alerts'[a].status = "sent" )
                  => ( ( \E it \in inbox'.items :
                           it.id = a /\ it.match_type = "neighborhood" )
                       <=> (ih \cap ah # {}) )
      ]_vars

\* The inbox of a device without location has labelled a sent alert
\* "neighborhood", and the device is in that alert's target set.
C12_Witness ==
    /\ inbox.called
    /\ inbox.point = NULL
    /\ inbox.token \in DOMAIN devices
    /\ devices[inbox.token].last_location = NULL
    /\ \E it \in inbox.items :
          /\ it.match_type = "neighborhood"
          /\ ~alerts[it.id].broadcast
          /\ inbox.token \in TargetedDevices(alerts[it.id])

\* C13: an alert without broadcast, without areas and without neighborhoods
\* has an empty target set whatever devices are registered, a send call
\* counts no device for it, and no inbox evaluation lists it.
C13_NoCriteriaTargetsNobody ==
    [][\A a \in DOMAIN alerts' :
         ( /\ ~alerts'[a].broadcast
           /\ alerts'[a].areas = {}
           /\ ~Truthy(alerts'[a].neighborhoods) )
         => /\ (TargetedDevices(alerts[a]))' = {}
            /\ \A s \in SendReqs :
                  (sendReq[s].pc = "idle" /\ sendReq'[s].pc = "loaded"
                     /\ sendReq'[s].alert = a) => sendReq'[s].count = 0
            /\ inbox' # inbox => \A it \in inbox'.items : it.id # a
      ]_vars

\* An alert without any targeting criterion was sent with a count of zero
\* while a device with a location and neighborhoods was registered, and an
\* inbox call of that device with coordinates and neighborhoods came back
\* empty.
C13_Witness ==
    /\ sendReq[1].resp.code = 200
    /\ sendReq[1].resp.devices_targeted = 0
    /\ LET al == alerts[sendReq[1].alert] IN
       ~al.broadcast /\ al.areas = {} /\ ~Truthy(al.neighborhoods)
    /\ inbox.called
    /\ inbox.token \in DOMAIN devices
    /\ devices[inbox.token].last_location # NULL
    /\ inbox.point # NULL
    /\ Truthy(inbox.neighborhoods)
    /\ inbox.items = {}

\* C14: in the answer of an inbox evaluation for a registered device, a
\* sent alert with broadcast is labelled "broadcast", and a sent alert
\* without broadcast that contains the request's coordinates in an area is
\* labelled "geo", also when the neighborhoods overlap.
C14_MatchTypePrecedence ==
    [][( inbox' # inbox /\ inbox'.token \in DOMAIN devices ) =>
         \A a \in DOMAIN alerts :
            alerts[a].status = "sent" =>
               /\ alerts[a].broadcast
                    => \E it \in inbox'.items :
                          it.id = a /\ it.match_type = "broadcast"
               /\ ( /\ ~alerts[a].broadcast
                    /\ inbox'.point # NULL
                    /\ \E geom \in alerts[a].areas :
                          ST_Contains(geom, inbox'.point) )
                    => \E it \in inbox'.items :
                          it.id = a /\ it.match_type = "geo"
      ]_vars

\* An inbox call with coordinates inside the area of a sent alert whose
\* neighborhoods overlap the device's was labelled "geo".
C14_Witness ==
    /\ inbox.called
    /\ inbox.point # NULL
    /\ \E it \in inbox.items :
          /\ it.match_type = "geo"
          /\ Truthy(inbox.neighborhoods)
          /\ Truthy(alerts[it.id].neighborhoods)
          /\ inbox.neighborhoods[1] \cap alerts[it.id].neighborhoods[1] # {}

\* C15: a fetch whose provider failed (a failed result or an exception) and
\* whose cache read returned a payload answers with that payload, stale set,
\* and age_seconds equal to the time since that payload was stored.
C15_FallbackReturnsCachedWithAge ==
    [][\A f \in Fetchers :
         ( /\ fetch[f].pc # "done"
           /\ fetch'[f].pc = "done"
           /\ fetch[f].provider \in {"fail", "raise"}
           /\ fetch[f].got # NULL )
         => /\ fetch'[f].resp.kind = "stale"
            /\ fetch'[f].resp.data = fetch[f].got
            /\ fetch'[f].resp.cache.stale
            /\ fetch'[f].resp.cache.age_seconds
                  = redisTime - fetch[f].got_written
      ]_vars

\* C16: a fetch whose provider call succeeded goes on to store the payload;
\* the store replaces what the data key held by the payload with an expiry
\* of twice the nominal TTL from now, and the fetch then answers with the
\* provider's payload and no cache information (no stale flag, no age).
C16_SuccessStoresWithDoubleTtl ==
    [][\A f \in Fetchers :
         /\ ( fetch[f].pc \in {"idle", "done"} /\ fetch'[f].provider = "ok"
                /\ fetch'[f].pc # fetch[f].pc )
              => fetch'[f].pc = "set_data"
         /\ ( fetch[f].pc = "set_data" /\ fetch'[f].pc = "set_stamp" )
              => /\ cacheData'[fetch[f].src].value = fetch[f].payload
                 /\ cacheData'[fetch[f].src].expires
                       = redisTime + 2 * NominalTtl(fetch[f].src)
         /\ ( fetch[f].pc = "set_stamp" /\ fetch'[f].pc = "done" )
              => /\ cacheStamp'[fetch[f].src].value = fetch[f].stamp_now
                 /\ cacheStamp'[fetch[f].src].expires
                       = redisTime + 2 * NominalTtl(fetch[f].src)
                 /\ fetch'[f].resp.kind = "fresh"
                 /\ fetch'[f].resp.data = fetch[f].payload
                 /\ ~fetch'[f].resp.cache.present
         /\ ( fetch'[f].pc = "done" /\ fetch'[f].provider = "ok" )
              => /\ fetch'[f].resp.kind = "fresh"
                 /\ fetch'[f].resp.data = fetch'[f].payload
      ]_vars

\* A fetch has answered with fresh data after its store replaced an earlier,
\* different payload, and the data key now expires twice the nominal TTL
\* after that store.
C16_Witness ==
    \E f \in Fetchers :
       /\ fetch[f].pc = "done"
       /\ fetch[f].provider = "ok"
       /\ fetch[f].resp.kind = "fresh"
       /\ fetch[f].replaced # NULL
       /\ fetch[f].replaced # fetch[f].payload
       /\ cacheData[fetch[f].src].value = fetch[f].payload
       /\ cacheData[fetch[f].src].written > 0
       /\ cacheData[fetch[f].src].expires
             = cacheData[fetch[f].src].written + 120

\* C17: a cache read that finds no payload under the data key returns none,
\* and a fetch whose provider failed and whose cache read returned no
\* payload ends with the source-unavailable error and carries no payload.
C17_NoCacheRaisesUnavailable ==
    [][\A f \in Fetchers :
         /\ ( fetch[f].pc = "get_data" /\ fetch'[f].pc # "get_data"
                /\ cacheData[fetch[f].src].value = NULL )
              => fetch'[f].got = NULL
         /\ ( /\ fetch[f].pc # "done"
              /\ fetch'[f].pc = "done"
              /\ fetch[f].provider \in {"fail", "raise"}
              /\ fetch[f].got = NULL )
              => /\ fetch'[f].resp.kind = "error"
                 /\ fetch'[f].resp.code
                       = (IF fetch[f].src = "weather"
                          THEN "WEATHER_UNAVAILABLE" ELSE "RADAR_UNAVAILABLE")
                 /\ fetch'[f].resp.data = NULL
                 /\ ~fetch'[f].resp.cache.present
      ]_vars

\* A fetch whose provider raised has ended with the unavailable error after
\* the payload cached earlier had expired.
C17_Witness ==
    \E f \in Fetchers :
       /\ fetch[f].pc = "done"
       /\ fetch[f].provider = "raise"
       /\ fetch[f].resp.kind = "error"
       /\ fetch[f].resp.code = "WEATHER_UNAVAILABLE"
       /\ lastWrite[fetch[f].src].value # NULL
       /\ cacheData[fetch[f].src].value = NULL

\* C18: every completed fetch whose provider call succeeded and whose cache
\* write failed has answered with the provider's fresh payload.
C18_CacheWriteFailureStillFresh ==
    \A f \in Fetchers :
       ( fetch[f].pc = "done" /\ fetch[f].provider = "ok"
           /\ fetch[f].set_failed )
       => /\ fetch[f].resp.kind = "fresh"
          /\ fetch[f].resp.data = fetch[f].payload

\* C19 as stated: a fetch whose provider failed and whose cache read came
\* 130 seconds after the payload was stored, under a nominal TTL of 60
\* seconds, answers with that payload, stale set and an age of about 130.
C19_StaleAfter130Seconds ==
    [][\A f \in Fetchers :
         ( /\ fetch[f].pc # "done"
           /\ fetch'[f].pc = "done"
           /\ fetch'[f].provider \in {"fail", "raise"}
           /\ NominalTtl(fetch'[f].src) = 60
           /\ fetch'[f].since_write = 130 )
         => /\ fetch'[f].resp.kind = "stale"
            /\ fetch'[f].resp.data = lastWrite[fetch'[f].src].value
            /\ fetch'[f].resp.cache.stale
            /\ fetch'[f].resp.cache.age_seconds \in 130..140
      ]_vars

\* C19 amended: under a nominal TTL of 60 seconds a payload stored 130
\* seconds before the cache read has expired (it was stored for 120
\* seconds), the read returns nothing and the fetch ends with the
\* source-unavailable error; a payload stored 110 seconds before the read is
\* returned by it, and a fetch that answers with it marks it stale.
C19_ExpiredAfterTwiceTtl ==
    [][\A f \in Fetchers :
         ( /\ fetch'[f].provider \in {"fail", "raise"}
           /\ NominalTtl(fetch'[f].src) = 60 )
         => /\ ( fetch[f].pc = "get_data" /\ fetch'[f].pc # "get_data"
                   /\ fetch'[f].since_write = 130 )
                 => fetch'[f].got = NULL
            /\ ( fetch[f].pc # "done" /\ fetch'[f].pc = "done"
                   /\ fetch'[f].since_write = 130 )
                 => ( fetch'[f].resp.kind = "error"
                      /\ fetch'[f].resp.code = "WEATHER_UNAVAILABLE" )
            /\ ( fetch[f].pc = "get_data" /\ fetch'[f].pc = "get_stamp"
                   /\ fetch'[f].since_write = 110 )
                 => fetch'[f].got = lastWrite[fetch'[f].src].value
            /\ ( fetch[f].pc # "done" /\ fetch'[f].pc = "done"
                   /\ fetch'[f].since_write = 110
                   /\ fetch'[f].resp.kind # "error" )
                 => ( fetch'[f].resp.kind = "stale"
                      /\ fetch'[f].resp.data = lastWrite[fetch'[f].src].value
                      /\ fetch'[f].resp.cache.stale )
      ]_vars

\* A fetch whose provider failed has read the cache 130 seconds after the
\* payload was stored and has ended with the unavailable error.
C19_Witness ==
    \E f \in Fetchers :
       /\ fetch[f].pc = "done"
       /\ fetch[f].provider = "fail"
       /\ fetch[f].since_write = 130
       /\ fetch[f].resp.kind = "error"
       /\ lastWrite[fetch[f].src].value # NULL

\* C20: while and after send_batch, with Firebase initialised, runs over n
\* notifications with batch size B (the configured 500 when none is given),
\* the provider batch calls made so far are the consecutive slices of
\* min(B, 500) notifications in list order, the last one shorter when the
\* list ends; when the run is over there are ceil(n / min(B, 500)) of them
\* and one result per notification.
C20_BatchCallsChunked ==
    batchRun.mode = "fcm" =>
       LET B == IF batchRun.b = 0 THEN 500 ELSE batchRun.b
           m == IF B < 500 THEN B ELSE 500
           k == Len(batchRun.calls)
       IN /\ \A j \in 1..k :
                /\ batchRun.calls[j].first = (j - 1) * m + 1
                /\ batchRun.calls[j].last
                      = (IF j * m < batchRun.n THEN j * m ELSE batchRun.n)
                /\ batchRun.calls[j].last - batchRun.calls[j].first + 1 <= m
          /\ batchRun.pc = "done"
                => /\ k = (batchRun.n + m - 1) \div m
                   /\ batchRun.nresults = batchRun.n

\* send_batch has finished 750 notifications with batch size 500 in two
\* provider calls, of the first 500 and of the remaining 250.
C20_Witness ==
    /\ batchRun.pc = "done"
    /\ batchRun.mode = "fcm"
    /\ batchRun.n = 750
    /\ batchRun.b = 500
    /\ batchRun.calls = << [first |-> 1, last |-> 500],
                           [first |-> 501, last |-> 750] >>

C22_SimulationDeterministic ==
    [][( batchRun.pc = "loop" /\ batchRun.mode = "mock"
           /\ batchRun' # batchRun )
       => LET size == Min(batchRun.i + batchRun.eff, batchRun.n) - batchRun.i
          IN /\ \A d \in SliceDraws :
                   ( d.unknown = 0 /\ ~d.raises
                       /\ d.invalid + d.temporary <= size )
                   => batchRun'.tally = SliceTally(batchRun.tally, size, d)
             /\ batchRun'.pc = "done"
                   => batchRun'.tally.sent < batchRun'.n
      ]_vars

\* C23: at every point after reset_stats (or construction), sent_count plus
\* failed_count equals the number of notifications send_notification and
\* send_batch have answered since, and invalid_token_count is at most
\* failed_count.
C23_CountersAddUp ==
    /\ stats.sent_count + stats.failed_count = stats.processed
    /\ stats.invalid_token_count <= stats.failed_count

\* C24: a job that goes on to dispatch takes as its devices exactly the
\* devices whose stored state matches the alert at that moment, whatever the
\* send request counted; it ends without a dispatch exactly when no device
\* matches then; and every batch it pushes is taken from those devices, none
\* of them twice.
C24_TargetsResolvedAtJobStart ==
    [][\A t \in TaskIds :
         LET a == tasks[t].alert
             pushed == { e.result.device_token :
                           e \in { x \in pushLog' \ pushLog : x.task = t } }
         IN
         /\ ( tasks[t].pc = "queued" /\ tasks'[t].pc = "dispatch" )
              => tasks'[t].remaining
                    = { tok \in DOMAIN devices :
                           DeviceMatches(alerts[a], devices[tok]) }
         /\ ( tasks[t].pc = "queued" /\ tasks'[t].pc = "done"
                /\ a \in DOMAIN alerts /\ alerts[a].status = "sent" )
              => /\ tasks'[t].result = "no_devices"
                 /\ \A tok \in DOMAIN devices :
                       ~DeviceMatches(alerts[a], devices[tok])
         /\ ( tasks[t].pc = "dispatch" /\ tasks'[t] # tasks[t] )
              => /\ pushed # {}
                 /\ pushed \subseteq tasks[t].remaining
                 /\ tasks'[t].pc = "dispatch"
                       => tasks'[t].remaining = tasks[t].remaining \ pushed
         /\ tasks[t].pc # "dispatch" => pushed = {}
      ]_vars

\* The send request counted no device; a device that registered afterwards
\* was pushed to by the job.
C24_Witness ==
    /\ sendReq[1].resp.code = 200
    /\ sendReq[1].resp.devices_targeted = 0
    /\ tasks[1].pc = "done"
    /\ \E e \in pushLog : e.task = 1 /\ e.result.device_token \in DOMAIN devices

C26_AtMostOneSendSucceeds ==
    \A a \in AlertIds :
       /\ Cardinality({ s \in SendReqs :
                          sendReq[s].resp.code = 200 /\ sendReq[s].alert = a })
             <= 1
       /\ Cardinality({ t \in SendReqs :
                          tasks[t].pc # "free" /\ tasks[t].alert = a }) <= 1

\* C27: an inbox evaluation for a registered device without coordinates,
\* made with the device's stored neighborhoods, lists a sent alert exactly
\* when the device is in the alert's target set.
C27_InboxMatchesTargetSet ==
    [][( /\ inbox' # inbox
         /\ inbox'.token \in DOMAIN devices
         /\ inbox'.point = NULL
         /\ inbox'.neighborhoods
               = InboxNeighborhoods(devices[inbox'.token], NoList) )
       => \A a \in DOMAIN alerts :
             alerts[a].status = "sent" =>
                ( (\E it \in inbox'.items : it.id = a)
                  <=> DeviceMatches(alerts[a], devices[inbox'.token]) )
      ]_vars

\* C28: in every reachable state every alert_deliveries row belongs to a
\* stored alert in status sent.
C28_RowsOnlyForSentAlerts ==
    \A d \in deliveries :
       /\ d.alert_id \in DOMAIN alerts
       /\ alerts[d.alert_id].status = "sent"

\* C29: when a mark-as-read call ends with success, the row of the pair it
\* found or inserted carries as read_at the value the call returns, also
\* when the row was already read.
C29_ReturnedReadAtIsStored ==
    [][\A r \in ReadReqs :
         ( readReq[r].pc = "found" /\ readReq'[r].pc = "done"
             /\ readReq'[r].resp.code = 200 )
         => \E d \in RowsIn(deliveries', readReq[r].alert, readReq[r].token) :
               /\ readReq[r].found # 0 => d.id = readReq[r].found
               /\ d.read_at = readReq'[r].resp.read_at
      ]_vars

\* C30: while set and get calls on the same key interleave and no key
\* expires, a cache read that returns a payload reports an age and a
\* cached_at, and the cached_at is the timestamp taken by the set call that
\* stored that payload.
C30_AgeFromSameSetCall ==
    [][\A f \in Fetchers :
         ( fetch[f].pc = "get_stamp" /\ fetch'[f].pc = "done"
             /\ fetch[f].got # NULL )
         => /\ fetch'[f].resp.cache.age_seconds # NoStamp
            /\ fetch'[f].resp.cache.cached_at # NoStamp
            /\ fetch'[f].resp.cache.cached_at = fetch[f].got_written
      ]_vars

====
